---- MODULE Spec2Model ----
(***************************************************************************)
(* GPS_Extract.py: pairing of nearby decimal numbers into longitude /      *)
(* latitude candidates, canonical deduplication, two-phase selection and   *)
(* the output artifact written by main().                                  *)
(*                                                                         *)
(* Floating-point values are modelled as exact decimals with eight         *)
(* fractional digits: the record [w |-> whole, f |-> frac] stands for      *)
(* w + f / 10^8 with 0 <= f < 10^8 (w is the floor, so -122.0591 is        *)
(* [w |-> -123, f |-> 94090000]).  The sample values keep clear of exact   *)
(* rounding ties and of the exact edge of the tolerance band, where the    *)
(* binary representation of a double decides.                              *)
(***************************************************************************)
EXTENDS Integers, Sequences, FiniteSets, TLC

VARIABLES pc, entry, inp, input_exists, out_dir_exists, data, floats, window,
          pairs, unique, chosen, outFile, outBefore, returned, steps

\* pc             position in main() (or in the function called directly)
\* entry          what is run: main(), or one function on its own arguments
\* inp            main.inp, the input path
\* input_exists   os.path.exists(inp)
\* out_dir_exists whether open(out, 'w') can create the output file
\* data           the byte buffer find_floats_in_bytes is called on, when the
\*                scanner is run on its own; main() is run on files given
\*                by the float list scanned from them, and data stays empty
\* floats         the (offset, value) list returned by find_floats_in_bytes
\* window         max_byte_distance of the find_coordinate_pairs call
\* pairs, unique, chosen   the locals of main() of those names; << >> is None
\* outFile        the file at the output path; outBefore: as the run found it
\* returned       << >> until main() returns, then <<code>>
\* steps          the statements of main() executed so far
vars == <<pc, entry, inp, input_exists, out_dir_exists, data, floats, window,
          pairs, unique, chosen, outFile, outBefore, returned, steps>>

(***************************************************************************)
(* Bounds of the model.                                                    *)
(***************************************************************************)
MaxFloats == 3

MaxCands == 3

(***************************************************************************)
(* Program constants.                                                      *)
(***************************************************************************)
Digits == 7

DefaultWindow == 200

MainWindow == 300

ExitOk == 0

\* Variant of ExitMissing: the success code.
ExitMissingAsOk == ExitOk

ExitMissing == 2

(***************************************************************************)
(* Decimal arithmetic standing for Python float arithmetic.                *)
(***************************************************************************)
Scale == 10 ^ (Digits + 1)

D(w, f) == [w |-> w, f |-> f]

Le(x, y) == x.w < y.w \/ (x.w = y.w /\ x.f <= y.f)

Sub(x, y) ==
    IF x.f >= y.f THEN D(x.w - y.w, x.f - y.f)
    ELSE D(x.w - y.w - 1, x.f + Scale - y.f)

Neg(x) == IF x.f = 0 THEN D(0 - x.w, 0) ELSE D(0 - x.w - 1, Scale - x.f)

abs(x) == IF x.w < 0 THEN Neg(x) ELSE x

\* round(x, ndigits): nearest multiple of 10^-ndigits, ties to even.
round(x, ndigits) ==
    LET step == Scale \div (10 ^ ndigits)
        r    == x.f % step
        base == x.f - r
        up   == \/ 2 * r > step
                \/ (2 * r = step /\ (base \div step) % 2 = 1)
        g    == IF up THEN base + step ELSE base
    IN  IF g = Scale THEN D(x.w + 1, 0) ELSE D(x.w, g)

target_lat == D(37, 93610000)

target_lon == D(-123, 94090000)

tol == D(0, 10000)

(***************************************************************************)
(* find_coordinate_pairs                                                   *)
(***************************************************************************)
valid_lon(v) == Le(D(-180, 0), v) /\ Le(v, D(180, 0))

\* Variant of valid_lat: the longitude range.
valid_lat_as_lon(v) == Le(D(-180, 0), v) /\ Le(v, D(180, 0))

valid_lat(v) == Le(D(-90, 0), v) /\ Le(v, D(90, 0))

\* Variants of past_window: the scan never stops; it stops one byte early.
past_window_never(pos1, pos2, max_byte_distance) == FALSE

past_window_at(pos1, pos2, max_byte_distance) == pos2 - pos1 >= max_byte_distance

past_window(pos1, pos2, max_byte_distance) == pos2 - pos1 > max_byte_distance

\* Variant of emit_pairs: the swapped candidate first.
emit_pairs_swapped_first(pos1, v1, pos2, v2) ==
    (IF valid_lon(v2) /\ valid_lat(v1) THEN << <<pos1, pos2, v2, v1>> >> ELSE << >>)
    \o
    (IF valid_lon(v1) /\ valid_lat(v2) THEN << <<pos1, pos2, v1, v2>> >> ELSE << >>)

emit_pairs(pos1, v1, pos2, v2) ==
    (IF valid_lon(v1) /\ valid_lat(v2) THEN << <<pos1, pos2, v1, v2>> >> ELSE << >>)
    \o
    (IF valid_lon(v2) /\ valid_lat(v1) THEN << <<pos1, pos2, v2, v1>> >> ELSE << >>)

RECURSIVE inner_loop(_, _, _, _, _)
inner_loop(fl, i, j, max_byte_distance, acc) ==
    IF j > Len(fl) THEN acc
    ELSE IF past_window(fl[i][1], fl[j][1], max_byte_distance) THEN acc
    ELSE inner_loop(fl, i, j + 1, max_byte_distance,
                    acc \o emit_pairs(fl[i][1], fl[i][2], fl[j][1], fl[j][2]))

RECURSIVE outer_loop(_, _, _, _)
outer_loop(fl, i, max_byte_distance, acc) ==
    IF i > Len(fl) THEN acc
    ELSE outer_loop(fl, i + 1, max_byte_distance,
                    inner_loop(fl, i, i + 1, max_byte_distance, acc))

find_coordinate_pairs(fl, max_byte_distance) ==
    outer_loop(fl, 1, max_byte_distance, << >>)

(***************************************************************************)
(* canonical_pair and the deduplication loop of main()                     *)
(***************************************************************************)
\* Variant of canonical_pair: the key is not rounded.
canonical_pair_unrounded(lon, lat) == <<lat, lon>>

canonical_pair(lon, lat) == <<round(lat, Digits), round(lon, Digits)>>

RECURSIVE dedup_loop(_, _, _, _)
dedup_loop(ps, k, seen, acc) ==
    IF k > Len(ps) THEN acc
    ELSE LET key == canonical_pair(ps[k][3], ps[k][4])
         IN  IF key \in seen THEN dedup_loop(ps, k + 1, seen, acc)
             ELSE dedup_loop(ps, k + 1, seen \cup {key},
                             Append(acc, <<ps[k][3], ps[k][4], ps[k][1], ps[k][2]>>))

dedup(ps) == dedup_loop(ps, 1, {}, << >>)

(***************************************************************************)
(* Selector: target phase, then earliest fallback                          *)
(***************************************************************************)
within_tol(item) ==
    /\ Le(abs(Sub(item[2], target_lat)), tol)
    /\ Le(abs(Sub(item[1], target_lon)), tol)

RECURSIVE target_loop(_, _)
target_loop(u, k) ==
    IF k > Len(u) THEN << >>
    ELSE IF within_tol(u[k]) THEN u[k]
    ELSE target_loop(u, k + 1)

\* Variant of target_phase: the last candidate within tolerance.
RECURSIVE target_loop_back(_, _)
target_loop_back(u, k) ==
    IF k < 1 THEN << >>
    ELSE IF within_tol(u[k]) THEN u[k]
    ELSE target_loop_back(u, k - 1)

target_phase_last(u) == target_loop_back(u, Len(u))

target_phase(u) == target_loop(u, 1)

Min(a, b) == IF a <= b THEN a ELSE b

\* Variants of sort_key: pos1 alone; the latest candidate sorts first.
sort_key_pos1(item) == item[3]

sort_key_latest(item) == 0 - Min(item[3], item[4])

sort_key(item) == Min(item[3], item[4])

\* list.sort is stable: an item goes after every item whose key is <= its own.
RECURSIVE insert_sorted(_, _, _)
insert_sorted(s, item, k) ==
    IF k > Len(s) THEN Append(s, item)
    ELSE IF sort_key(item) < sort_key(s[k])
         THEN SubSeq(s, 1, k - 1) \o <<item>> \o SubSeq(s, k, Len(s))
    ELSE insert_sorted(s, item, k + 1)

RECURSIVE sorted_loop(_, _, _)
sorted_loop(u, k, acc) ==
    IF k > Len(u) THEN acc
    ELSE sorted_loop(u, k + 1, insert_sorted(acc, u[k], 1))

sorted(u) == sorted_loop(u, 1, << >>)

fallback_phase(ch, u) ==
    IF ch = << >> /\ u # << >> THEN sorted(u)[1] ELSE ch

(***************************************************************************)
(* Output Formatter: the lines main() writes                               *)
(***************************************************************************)
\* f'{x:.7f}': sign and magnitude rounded to seven decimals.
fmt7(x) == [neg |-> x.w < 0, mag |-> round(abs(x), Digits)]

header_line == <<"longitude,latitude">>

coord_line(lon, lat) == <<"coord", fmt7(lon), fmt7(lat)>>

not_found_line(path) == <<"No longitude/latitude found in", path>>

\* Variant of input_missing: the existence check never fails.
input_missing_never(exists) == FALSE

input_missing(exists) == ~exists

(***************************************************************************)
(* Inputs                                                                  *)
(***************************************************************************)
InputPaths == {"Golf.mov", "clip.mov"}

Offsets == {0, 100, 300, 401}

Windows == {100, DefaultWindow, MainWindow}

near_lon == D(-123, 94085000)

near_lat == D(37, 93610004)

\* Values of the files main() is run on: the target, values close to it,
\* a value valid either way, one valid as longitude only, one valid as neither.
MainVals == {target_lon, target_lat, near_lon, near_lat,
             D(12, 50000000), D(95, 0), D(200, 50000000)}

\* Values find_coordinate_pairs is called with: the four range limits, the
\* nearest values outside them, and the target.
FnVals == {D(180, 0), D(-180, 0), D(90, 0), D(-90, 0),
           D(180, 1), D(-181, 99999999), D(90, 1), D(-91, 99999999),
           target_lon, target_lat}

AscOffsetSeqs(n) ==
    {os \in [1..n -> Offsets] : \A i \in 1..(n - 1) : os[i] < os[i + 1]}

\* Lists of (offset, value) with strictly ascending offsets.
FloatLists(vals) ==
    UNION {{[i \in 1..n |-> <<os[i], vs[i]>>] :
              os \in AscOffsetSeqs(n), vs \in [1..n -> vals]} :
           n \in 0..MaxFloats}

\* Candidate tuples (pos1, pos2, lon, lat) handed directly to the
\* deduplication loop and, deduplicated, to the Selector.
PairUniverse ==
    {<<100, 300, near_lon, target_lat>>,
     <<0, 100, target_lon, target_lat>>,
     <<100, 401, target_lon, near_lat>>,
     <<300, 0, D(12, 50000000), D(12, 50000000)>>,
     <<100, 300, D(12, 50000000), D(12, 50000000)>>,
     <<0, 401, D(95, 0), D(12, 50000000)>>,
     <<300, 401, D(180, 0), D(90, 0)>>}

CandLists == UNION {[1..n -> PairUniverse] : n \in 0..MaxCands}

as_unique(ps) == [k \in 1..Len(ps) |-> <<ps[k][3], ps[k][4], ps[k][1], ps[k][2]>>]

DedupedLists ==
    {as_unique(ps) : ps \in
        {q \in CandLists : \A a, b \in 1..Len(q) :
            a # b => canonical_pair(q[a][3], q[a][4]) # canonical_pair(q[b][3], q[b][4])}}

PriorOutFiles == {[exists |-> FALSE, lines |-> << >>],
                  [exists |-> TRUE, lines |-> << <<"old contents">> >>]}

(***************************************************************************)
(* main()                                                                  *)
(***************************************************************************)
Init ==
    /\ pc = "start"
    /\ entry = "main"
    /\ inp \in InputPaths
    /\ input_exists \in BOOLEAN
    /\ data = << >>
    /\ floats = << >>
    /\ window = DefaultWindow
    /\ pairs = << >>
    /\ unique = << >>
    /\ chosen = << >>
    /\ out_dir_exists \in BOOLEAN
    /\ outFile \in {o \in PriorOutFiles : o.exists => out_dir_exists}
    /\ outBefore = outFile
    /\ returned = << >>
    /\ steps = << >>

\* if not os.path.exists(inp): return 2
CheckInputMissing ==
    /\ pc = "start"
    /\ input_missing(input_exists)
    /\ returned' = <<ExitMissing>>
    /\ pc' = "done"
    /\ steps' = Append(steps, "exists")
    /\ UNCHANGED <<entry, inp, input_exists, out_dir_exists, data, floats, window, pairs, unique,
                   chosen, outFile, outBefore>>

CheckInputPresent ==
    /\ pc = "start"
    /\ ~input_missing(input_exists)
    /\ pc' = "read"
    /\ steps' = Append(steps, "exists")
    /\ UNCHANGED <<entry, inp, input_exists, out_dir_exists, data, floats, window, pairs, unique,
                   chosen, outFile, outBefore, returned>>

\* data = f.read(); floats = find_floats_in_bytes(data)
ReadAndScan ==
    /\ pc = "read"
    /\ floats' \in FloatLists(MainVals)
    /\ pc' = "pairs"
    /\ steps' = Append(steps, "scan")
    /\ UNCHANGED <<entry, inp, input_exists, out_dir_exists, data, window, pairs, unique, chosen,
                   outFile, outBefore, returned>>

\* pairs = find_coordinate_pairs(floats, max_byte_distance=300)
MainFindPairs ==
    /\ pc = "pairs"
    /\ entry = "main"
    /\ window' = MainWindow
    /\ pairs' = find_coordinate_pairs(floats, MainWindow)
    /\ pc' = "dedup"
    /\ steps' = Append(steps, "pair")
    /\ UNCHANGED <<entry, inp, input_exists, out_dir_exists, data, floats, unique, chosen, outFile,
                   outBefore, returned>>

Deduplicate ==
    /\ pc = "dedup"
    /\ unique' = dedup(pairs)
    /\ pc' = "select"
    /\ steps' = Append(steps, "dedup")
    /\ UNCHANGED <<entry, inp, input_exists, out_dir_exists, data, floats, window, pairs, chosen,
                   outFile, outBefore, returned>>

TargetPhase ==
    /\ pc = "select"
    /\ chosen' = target_phase(unique)
    /\ pc' = "fallback"
    /\ steps' = Append(steps, "target")
    /\ UNCHANGED <<entry, inp, input_exists, out_dir_exists, data, floats, window, pairs, unique,
                   outFile, outBefore, returned>>

FallbackPhase ==
    /\ pc = "fallback"
    /\ chosen' = fallback_phase(chosen, unique)
    /\ pc' = "open"
    /\ steps' = Append(steps, "fallback")
    /\ UNCHANGED <<entry, inp, input_exists, out_dir_exists, data, floats, window, pairs, unique,
                   outFile, outBefore, returned>>

\* with open(out, 'w', encoding='utf-8') as f: creates or truncates the file
OpenOutput ==
    /\ pc = "open"
    /\ entry = "main"
    /\ out_dir_exists
    /\ outFile' = [exists |-> TRUE, lines |-> << >>]
    /\ pc' = "write"
    /\ steps' = Append(steps, "open")
    /\ UNCHANGED <<entry, inp, input_exists, out_dir_exists, data, floats, window, pairs, unique,
                   chosen, outBefore, returned>>

\* open() raises when the directory of the output path does not exist; the
\* exception leaves main() without a return value.
OpenOutputFails ==
    /\ pc = "open"
    /\ entry = "main"
    /\ ~out_dir_exists
    /\ pc' = "raised"
    /\ steps' = Append(steps, "open_failed")
    /\ UNCHANGED <<entry, inp, input_exists, out_dir_exists, data, floats, window,
                   pairs, unique, chosen, outFile, outBefore, returned>>

\* Variant of write_not_found: the header is written first.
write_not_found_with_header(lines, path) ==
    lines \o <<header_line, not_found_line(path)>>

write_not_found(lines, path) == Append(lines, not_found_line(path))

WriteNotFound ==
    /\ pc = "write"
    /\ chosen = << >>
    /\ outFile' = [outFile EXCEPT !.lines = write_not_found(@, inp)]
    /\ pc' = "return_not_found"
    /\ steps' = Append(steps, "write")
    /\ UNCHANGED <<entry, inp, input_exists, out_dir_exists, data, floats, window, pairs, unique,
                   chosen, outBefore, returned>>

ReturnNotFound ==
    /\ pc = "return_not_found"
    /\ returned' = <<ExitOk>>
    /\ pc' = "done"
    /\ steps' = Append(steps, "return")
    /\ UNCHANGED <<entry, inp, input_exists, out_dir_exists, data, floats, window, pairs, unique,
                   chosen, outFile, outBefore>>

write_found(lines, ch) == lines \o <<header_line, coord_line(ch[1], ch[2])>>

WriteFound ==
    /\ pc = "write"
    /\ chosen # << >>
    /\ outFile' = [outFile EXCEPT !.lines = write_found(@, chosen)]
    /\ pc' = "return_found"
    /\ steps' = Append(steps, "write")
    /\ UNCHANGED <<entry, inp, input_exists, out_dir_exists, data, floats, window, pairs, unique,
                   chosen, outBefore, returned>>

ReturnFound ==
    /\ pc = "return_found"
    /\ returned' = <<ExitOk>>
    /\ pc' = "done"
    /\ steps' = Append(steps, "return")
    /\ UNCHANGED <<entry, inp, input_exists, out_dir_exists, data, floats, window, pairs, unique,
                   chosen, outFile, outBefore>>

Next ==
    \/ CheckInputMissing
    \/ CheckInputPresent
    \/ ReadAndScan
    \/ MainFindPairs
    \/ Deduplicate
    \/ TargetPhase
    \/ FallbackPhase
    \/ OpenOutput
    \/ OpenOutputFails
    \/ WriteNotFound
    \/ ReturnNotFound
    \/ WriteFound
    \/ ReturnFound

Spec == Init /\ [][Next]_vars

(***************************************************************************)
(* The functions called directly: find_coordinate_pairs on any ascending   *)
(* float list and window, the deduplication loop on any candidate list,    *)
(* the Selector on any deduplicated list.                                  *)
(***************************************************************************)
InitFn ==
    /\ entry \in {"pairs", "dedup", "select"}
    /\ pc = entry
    /\ inp \in {"Golf.mov"}
    /\ input_exists = TRUE
    /\ out_dir_exists = TRUE
    /\ data = << >>
    /\ floats \in (IF entry = "pairs" THEN FloatLists(FnVals) ELSE {<< >>})
    /\ window \in (IF entry = "pairs" THEN Windows ELSE {DefaultWindow})
    /\ pairs \in (IF entry = "dedup" THEN CandLists ELSE {<< >>})
    /\ unique \in (IF entry = "select" THEN DedupedLists ELSE {<< >>})
    /\ chosen = << >>
    /\ outFile = [exists |-> FALSE, lines |-> << >>]
    /\ outBefore = outFile
    /\ returned = << >>
    /\ steps = << >>

FnFindPairs ==
    /\ pc = "pairs"
    /\ entry = "pairs"
    /\ pairs' = find_coordinate_pairs(floats, window)
    /\ pc' = "dedup"
    /\ steps' = Append(steps, "pair")
    /\ UNCHANGED <<entry, inp, input_exists, out_dir_exists, data, floats, window, unique, chosen,
                   outFile, outBefore, returned>>

NextFn ==
    \/ FnFindPairs
    \/ Deduplicate
    \/ TargetPhase
    \/ FallbackPhase

SpecFn == InitFn /\ [][NextFn]_vars

(***************************************************************************)
(* find_floats_in_bytes.  A byte is a one-character string; "0xFF" stands  *)
(* for a byte outside ASCII.  A scanned value is the decimal               *)
(* mant * 10^exp (kind "finite", no trailing zero in mant) or an infinity. *)
(***************************************************************************)
MaxBuf == 7

is_digit(b) == b \in {"0", "1", "2", "3", "4", "5", "6", "7", "8", "9"}

is_sign(b) == b \in {"-", "+"}

is_exp(b) == b \in {"e", "E"}

is_ascii(b) == b # "0xFF"

\* Number of consecutive digits of s from position p on.
RECURSIVE digit_run(_, _)
digit_run(s, p) ==
    IF p <= Len(s) /\ is_digit(s[p]) THEN 1 + digit_run(s, p + 1) ELSE 0

\* FLOAT_RE tried at position p (1-based): the length matched, 0 if none.
\* [-+]? (?: \d{1,3} \. \d+ | \d+ \. \d{1,} ) (?: [eE] [-+]? \d+ )?
\* Every quantifier is greedy and what follows the fraction is optional, so
\* the first alternative that reaches its dot and one fraction digit decides.
FLOAT_RE(s, p) ==
    LET sg   == IF p <= Len(s) /\ is_sign(s[p]) THEN 1 ELSE 0
        d    == digit_run(s, p + sg)
        dot  == p + sg + d
        f    == IF dot <= Len(s) /\ s[dot] = "." THEN digit_run(s, dot + 1) ELSE 0
        alt1 == d >= 1 /\ d <= 3 /\ f >= 1
        alt2 == d >= 1 /\ f >= 1
        e    == dot + 1 + f
        xs   == IF e + 1 <= Len(s) /\ is_sign(s[e + 1]) THEN 1 ELSE 0
        xd   == IF e <= Len(s) /\ is_exp(s[e]) THEN digit_run(s, e + 1 + xs) ELSE 0
    IN  IF alt1 \/ alt2
        THEN sg + d + 1 + f + (IF xd >= 1 THEN 1 + xs + xd ELSE 0)
        ELSE 0

\* .decode('ascii') succeeds.
decode_ok(tok) == \A k \in 1..Len(tok) : is_ascii(tok[k])

\* float(str) accepts [sign] (digits [. [digits]] | . digits) [e [sign] digits]
float_ok(tok) ==
    LET sg  == IF Len(tok) >= 1 /\ is_sign(tok[1]) THEN 1 ELSE 0
        a   == digit_run(tok, sg + 1)
        dot == IF sg + a + 1 <= Len(tok) /\ tok[sg + a + 1] = "." THEN 1 ELSE 0
        b   == IF dot = 1 THEN digit_run(tok, sg + a + 2) ELSE 0
        m   == sg + a + dot + b
        xs  == IF m + 2 <= Len(tok) /\ is_sign(tok[m + 2]) THEN 1 ELSE 0
        xd  == digit_run(tok, m + 2 + xs)
    IN  /\ a + b >= 1
        /\ \/ m = Len(tok)
           \/ (m < Len(tok) /\ is_exp(tok[m + 1]) /\ xd >= 1 /\ m + 1 + xs + xd = Len(tok))

DigitVal(b) ==
    CASE b = "0" -> 0 [] b = "1" -> 1 [] b = "2" -> 2 [] b = "3" -> 3
      [] b = "4" -> 4 [] b = "5" -> 5 [] b = "6" -> 6 [] b = "7" -> 7
      [] b = "8" -> 8 [] b = "9" -> 9

\* Value of the digits s[p], s[p + 1], ... after the value acc.
RECURSIVE digits_value(_, _, _)
digits_value(s, p, acc) ==
    IF p <= Len(s) /\ is_digit(s[p])
    THEN digits_value(s, p + 1, 10 * acc + DigitVal(s[p]))
    ELSE acc

RECURSIVE count_digits(_)
count_digits(n) == IF n < 10 THEN 1 ELSE 1 + count_digits(n \div 10)

RECURSIVE normalise(_, _, _)
normalise(neg, mant, exp) ==
    IF mant = 0 THEN [kind |-> "finite", neg |-> neg, mant |-> 0, exp |-> 0]
    ELSE IF mant % 10 = 0 THEN normalise(neg, mant \div 10, exp + 1)
    ELSE [kind |-> "finite", neg |-> neg, mant |-> mant, exp |-> exp]

\* float(tok) of a token FLOAT_RE matched: a double holds magnitudes from
\* about 1e-323 to 1.7e308; beyond that float() gives 0.0 or inf.
float_value(tok) ==
    LET sg   == IF is_sign(tok[1]) THEN 1 ELSE 0
        neg  == tok[1] = "-"
        a    == digit_run(tok, sg + 1)
        b    == digit_run(tok, sg + a + 2)
        ip   == digits_value(tok, sg + 1, 0)
        mant == digits_value(tok, sg + a + 2, ip)
        e    == sg + a + 1 + b + 1
        xneg == e + 1 <= Len(tok) /\ tok[e + 1] = "-"
        xs   == IF e + 1 <= Len(tok) /\ is_sign(tok[e + 1]) THEN 1 ELSE 0
        xv   == IF e <= Len(tok) THEN digits_value(tok, e + 1 + xs, 0) ELSE 0
        exp  == (IF xneg THEN 0 - xv ELSE xv) - b
        top  == exp + count_digits(mant) - 1
    IN  IF mant # 0 /\ top > 308
        THEN [kind |-> "inf", neg |-> neg, mant |-> 0, exp |-> 0]
        ELSE IF mant # 0 /\ top < -324 THEN normalise(neg, 0, 0)
        ELSE normalise(neg, mant, exp)

\* Variant of next_search: the search resumes one byte after the match start.
next_search_overlapping(p, len) == p + 1

\* finditer resumes the search at the end of the match.
next_search(p, len) == p + len

\* for m in FLOAT_RE.finditer(data): try float(...) except: continue
RECURSIVE finditer_loop(_, _, _)
finditer_loop(s, p, results) ==
    IF p > Len(s) THEN results
    ELSE LET len == FLOAT_RE(s, p)
             tok == SubSeq(s, p, p + len - 1)
         IN  IF len = 0 THEN finditer_loop(s, p + 1, results)
             ELSE IF decode_ok(tok) /\ float_ok(tok)
                  THEN finditer_loop(s, next_search(p, len),
                                     Append(results, <<p - 1, float_value(tok)>>))
             ELSE finditer_loop(s, next_search(p, len), results)

find_floats_in_bytes(s) == finditer_loop(s, 1, << >>)

\* Bytes the buffers are made of: a digit, the dot, a sign, an exponent
\* letter and a byte that is no part of a number.
ByteSample == {"1", ".", "-", "e", "0xFF"}

Buffers == UNION {[1..n -> ByteSample] : n \in 0..MaxBuf}

InitScan ==
    /\ entry = "scan"
    /\ pc = "scan"
    /\ inp \in {"Golf.mov"}
    /\ input_exists = TRUE
    /\ out_dir_exists = TRUE
    /\ data \in Buffers
    /\ floats = << >>
    /\ window = DefaultWindow
    /\ pairs = << >>
    /\ unique = << >>
    /\ chosen = << >>
    /\ outFile = [exists |-> FALSE, lines |-> << >>]
    /\ outBefore = outFile
    /\ returned = << >>
    /\ steps = << >>

ScanBytes ==
    /\ pc = "scan"
    /\ entry = "scan"
    /\ floats' = find_floats_in_bytes(data)
    /\ pc' = "scanned"
    /\ steps' = Append(steps, "scan")
    /\ UNCHANGED <<entry, inp, input_exists, out_dir_exists, data, window,
                   pairs, unique, chosen, outFile, outBefore, returned>>

NextScan == ScanBytes

SpecScan == InitScan /\ [][NextScan]_vars

(***************************************************************************)
(* Properties.  The predicates below restate ranges, tolerance, keys and   *)
(* offsets in their own terms, independently of the operators above.       *)
(***************************************************************************)
Lon(item) == item[1]

Lat(item) == item[2]

\* |lat - 37.9361| <= 1e-4 and |lon - (-122.0591)| <= 1e-4
NearTarget(item) ==
    /\ Le(D(37, 93600000), Lat(item)) /\ Le(Lat(item), D(37, 93620000))
    /\ Le(D(-123, 94080000), Lon(item)) /\ Le(Lon(item), D(-123, 94100000))

MinPos(item) == IF item[3] < item[4] THEN item[3] ELSE item[4]

Ran(step) == \E k \in 1..Len(steps) : steps[k] = step

AfterTarget == Ran("target")

AfterFallback == Ran("fallback")

\* C1: when some candidate of the deduplicated list is within tolerance of
\* the target, the target phase chooses the first such candidate in list
\* order, whatever later candidates are closer or earlier in the file.
C1_TargetFirstInOrder ==
    AfterTarget =>
        \A k \in 1..Len(unique) :
            (NearTarget(unique[k]) /\ \A m \in 1..(k - 1) : ~NearTarget(unique[m]))
                => chosen = unique[k]

\* The first candidate in tolerance is chosen although a later one is the
\* exact target and starts earlier in the file.
C1_Witness ==
    /\ entry = "select"
    /\ pc = "fallback"
    /\ \E k, m \in 1..Len(unique) :
          /\ k < m
          /\ chosen = unique[k]
          /\ NearTarget(unique[k])
          /\ Lon(unique[k]) # target_lon
          /\ Lon(unique[m]) = target_lon /\ Lat(unique[m]) = target_lat
          /\ MinPos(unique[m]) < MinPos(unique[k])

\* C2: when the deduplicated list is non-empty and holds no candidate in
\* tolerance, the fallback chooses the earliest-listed candidate among those
\* whose min(pos1, pos2) is the least of the whole list.
C2_FallbackEarliest ==
    (AfterFallback /\ unique # << >> /\ \A n \in 1..Len(unique) : ~NearTarget(unique[n]))
        => \A k \in 1..Len(unique) :
              (/\ \A m \in 1..Len(unique) : MinPos(unique[k]) <= MinPos(unique[m])
               /\ \A m \in 1..(k - 1) : MinPos(unique[m]) > MinPos(unique[k]))
                  => chosen = unique[k]

\* Two candidates tie on the least offset, reached through pos2 for the one
\* chosen, and the list starts with a later candidate.
C2_Witness ==
    /\ entry = "select"
    /\ pc = "open"
    /\ Len(unique) = 3
    /\ \A n \in 1..3 : ~NearTarget(unique[n])
    /\ chosen = unique[2]
    /\ unique[2][4] < unique[2][3]
    /\ MinPos(unique[3]) = MinPos(unique[2])
    /\ MinPos(unique[1]) > MinPos(unique[2])

\* The multiple of 10^-7 nearest to x.
Nearest7(x) ==
    LET lo == x.f - (x.f % 10)
    IN  IF x.f - lo < 5 THEN D(x.w, lo)
        ELSE IF lo + 10 = Scale THEN D(x.w + 1, 0) ELSE D(x.w, lo + 10)

\* CanonicalKey of a candidate given by its longitude and latitude.
KeyOf(lon, lat) == <<Nearest7(lat), Nearest7(lon)>>

\* Indices of the pairs that are the first with their key.
FirstOfKey ==
    {k \in 1..Len(pairs) :
        \A m \in 1..(k - 1) :
            KeyOf(pairs[m][3], pairs[m][4]) # KeyOf(pairs[k][3], pairs[k][4])}

\* The n-th smallest index of FirstOfKey.
NthFirst(n) ==
    CHOOSE k \in FirstOfKey : Cardinality({m \in FirstOfKey : m <= k}) = n

AfterDedup == Ran("dedup")

\* C3: the unique list is the subsequence of the candidate sequence made of
\* the first-discovered pair of every key, in the same order, each with its
\* original lon, lat, pos1 and pos2, and no two entries share a key.
C3_DedupFirstOfEachKey ==
    AfterDedup =>
        /\ Len(unique) = Cardinality(FirstOfKey)
        /\ \A n \in 1..Len(unique) :
              LET p == pairs[NthFirst(n)]
              IN  unique[n] = <<p[3], p[4], p[1], p[2]>>
        /\ \A a, b \in 1..Len(unique) :
              a # b => KeyOf(Lon(unique[a]), Lat(unique[a]))
                         # KeyOf(Lon(unique[b]), Lat(unique[b]))

\* A pair is discarded whose key was seen although its unrounded latitude and
\* its offsets differ from the retained pair's; a later pair is retained.
C3_Witness ==
    /\ entry = "dedup"
    /\ pc = "select"
    /\ Len(pairs) = 3
    /\ Len(unique) = 2
    /\ KeyOf(pairs[1][3], pairs[1][4]) = KeyOf(pairs[2][3], pairs[2][4])
    /\ pairs[1][4] # pairs[2][4]
    /\ pairs[1][1] # pairs[2][1]
    /\ unique[1] = <<pairs[1][3], pairs[1][4], pairs[1][1], pairs[1][2]>>
    /\ unique[2] = <<pairs[3][3], pairs[3][4], pairs[3][1], pairs[3][2]>>

LonOK(v) == Le(D(-180, 0), v) /\ Le(v, D(180, 0))

LatOK(v) == Le(D(-90, 0), v) /\ Le(v, D(90, 0))

Dist(a, b) == IF a < b THEN b - a ELSE a - b

AfterPairing == Ran("pair")

\* C4: no emitted pair has |pos2 - pos1| greater than the window; a list of
\* just two in-range numbers further apart than the window gives no pair and
\* no selection.
C4_PairsWithinWindow ==
    AfterPairing =>
        /\ \A k \in 1..Len(pairs) : Dist(pairs[k][1], pairs[k][2]) <= window
        /\ (/\ Len(floats) = 2
            /\ LonOK(floats[1][2]) /\ LonOK(floats[2][2])
            /\ floats[2][1] - floats[1][1] > window)
              => (pairs = << >> /\ unique = << >> /\ chosen = << >>)

\* Two numbers valid in both orders, further apart than the window: nothing
\* is emitted and the Selector ends with no selection.
C4_Witness ==
    /\ entry = "pairs"
    /\ pc = "open"
    /\ Len(floats) = 2
    /\ LonOK(floats[1][2]) /\ LatOK(floats[1][2])
    /\ LonOK(floats[2][2]) /\ LatOK(floats[2][2])
    /\ floats[2][1] - floats[1][1] = window + 1
    /\ pairs = << >>
    /\ chosen = << >>

\* Candidates of the index pair (i, j) under the emission rule.
Emitted(fl, i, j) ==
    (IF LonOK(fl[i][2]) /\ LatOK(fl[j][2])
     THEN << <<fl[i][1], fl[j][1], fl[i][2], fl[j][2]>> >> ELSE << >>)
    \o
    (IF LonOK(fl[j][2]) /\ LatOK(fl[i][2])
     THEN << <<fl[i][1], fl[j][1], fl[j][2], fl[i][2]>> >> ELSE << >>)

\* The scan over all index pairs i < j, none skipped: cell c of the n x n
\* grid is the pair (c \div n + 1, c % n + 1).
RECURSIVE FullScan(_, _, _, _)
FullScan(fl, W, c, acc) ==
    LET n == Len(fl)
        i == (c \div n) + 1
        j == (c % n) + 1
    IN  IF n = 0 \/ c >= n * n THEN acc
        ELSE IF i < j /\ fl[j][1] - fl[i][1] <= W
             THEN FullScan(fl, W, c + 1, acc \o Emitted(fl, i, j))
        ELSE FullScan(fl, W, c + 1, acc)

Count(sq, t) == Cardinality({k \in 1..Len(sq) : sq[k] = t})

SameBag(a, b) ==
    /\ Len(a) = Len(b)
    /\ \A k \in 1..Len(b) : Count(a, b[k]) = Count(b, b[k])

\* C5: with ascending offsets the early exit loses nothing: the emitted
\* candidates are those of the scan over all i < j within the window, the
\* direct and the swapped candidate each emitted exactly when it validates.
C5_BreakLosesNothing ==
    AfterPairing => SameBag(pairs, FullScan(floats, window, 0, << >>))

\* The scan for the first number stops at the second, skipping the third,
\* and the pair of the second and third yields both candidates.
C5_Witness ==
    /\ entry = "pairs"
    /\ pc = "dedup"
    /\ Len(floats) = 3
    /\ floats[2][1] - floats[1][1] > window
    /\ floats[3][1] - floats[2][1] <= window
    /\ floats[2][2] # floats[3][2]
    /\ Len(pairs) = 2

Limits == {D(180, 0), D(-180, 0), D(90, 0), D(-90, 0)}

\* C6: every emitted candidate, every entry of the deduplicated list and the
\* selection have longitude in [-180, 180] and latitude in [-90, 90]; the
\* limits themselves are accepted.
C6_CoordinatesInRange ==
    AfterPairing =>
        /\ \A k \in 1..Len(pairs) : LonOK(pairs[k][3]) /\ LatOK(pairs[k][4])
        /\ \A k \in 1..Len(unique) : LonOK(Lon(unique[k])) /\ LatOK(Lat(unique[k]))
        /\ chosen # << >> => (LonOK(Lon(chosen)) /\ LatOK(Lat(chosen)))
        /\ \A i, j \in 1..Len(floats) :
              (/\ i < j
               /\ floats[j][1] - floats[i][1] <= window
               /\ floats[i][2] \in {D(180, 0), D(-180, 0)}
               /\ floats[j][2] \in {D(90, 0), D(-90, 0)})
                 => \E k \in 1..Len(pairs) :
                       pairs[k] = <<floats[i][1], floats[j][1], floats[i][2], floats[j][2]>>

\* Candidates at the limits are emitted, kept and selected.
C6_Witness ==
    /\ entry = "pairs"
    /\ pc = "open"
    /\ \E k \in 1..Len(unique) : Lon(unique[k]) = D(-180, 0) /\ Lat(unique[k]) \in Limits
    /\ chosen # << >>
    /\ Lon(chosen) = D(180, 0)
    /\ Lat(chosen) \in Limits

\* The value scanned at an offset.
ValueAt(pos) == (CHOOSE k \in 1..Len(floats) : floats[k][1] = pos)

\* C7: candidates are emitted by ascending i, then ascending j; an (i, j)
\* valid in both orders gives the direct candidate immediately followed by
\* the swapped one.
C7_DiscoveryOrder ==
    AfterPairing =>
        /\ \A a, b \in 1..Len(pairs) :
              a < b => \/ pairs[a][1] < pairs[b][1]
                       \/ (pairs[a][1] = pairs[b][1] /\ pairs[a][2] <= pairs[b][2])
        /\ \A a, b \in 1..Len(pairs) :
              (a < b /\ pairs[a][1] = pairs[b][1] /\ pairs[a][2] = pairs[b][2])
                => LET v1 == floats[ValueAt(pairs[a][1])][2]
                       v2 == floats[ValueAt(pairs[a][2])][2]
                   IN  /\ b = a + 1
                       /\ pairs[a] = <<pairs[a][1], pairs[a][2], v1, v2>>
                       /\ pairs[b] = <<pairs[a][1], pairs[a][2], v2, v1>>

\* Three index pairs are in the window; the middle one emits the direct and
\* then the swapped candidate of two different values.
C7_Witness ==
    /\ entry = "pairs"
    /\ pc = "dedup"
    /\ Len(floats) = 3
    /\ Len(pairs) = 4
    /\ pairs[1][2] = floats[2][1]
    /\ pairs[2][1] = floats[1][1] /\ pairs[2][2] = floats[3][1]
    /\ pairs[3][1] = floats[1][1] /\ pairs[3][2] = floats[3][1]
    /\ pairs[2][3] = floats[1][2] /\ pairs[3][3] = floats[3][2]
    /\ floats[1][2] # floats[3][2]
    /\ pairs[4][1] = floats[2][1]

\* C8: a finished run of main() on an existing input leaves the output in
\* one of two shapes: the single not-found line naming the input path, with
\* no header, exactly when the deduplicated list is empty; otherwise the
\* header followed by the one line of the chosen longitude and latitude.
C8_OutputShapes ==
    (entry = "main" /\ pc = "done" /\ input_exists) =>
        /\ outFile.exists
        /\ \/ /\ unique = << >>
              /\ outFile.lines = << <<"No longitude/latitude found in", inp>> >>
           \/ /\ unique # << >>
              /\ \E k \in 1..Len(unique) : chosen = unique[k]
              /\ outFile.lines =
                    << <<"longitude,latitude">>,
                       <<"coord", fmt7(Lon(chosen)), fmt7(Lat(chosen))>> >>

\* Several unique candidates, one coordinate line, the previous contents of
\* the output replaced.
C8_Witness ==
    /\ entry = "main"
    /\ pc = "done"
    /\ input_exists
    /\ outBefore.exists
    /\ Len(unique) >= 2
    /\ chosen = unique[2]
    /\ Len(outFile.lines) = 2
    /\ outFile.lines[1] = <<"longitude,latitude">>

\* C9: with a missing input main() returns 2, the output file is neither
\* created, opened nor modified, and no scanning, pairing, deduplication or
\* selection step runs.
C9_MissingInputAborts ==
    (entry = "main" /\ ~input_exists) =>
        /\ pc \in {"start", "done"}
        /\ outFile = outBefore
        /\ floats = << >> /\ pairs = << >> /\ unique = << >> /\ chosen = << >>
        /\ pc = "done" => (returned = <<2>> /\ steps = <<"exists">>)

\* The run has ended on a missing input and no output file exists.
C9_Witness ==
    /\ entry = "main"
    /\ pc = "done"
    /\ ~input_exists
    /\ returned = <<2>>
    /\ ~outBefore.exists
    /\ ~outFile.exists

\* C10: main() returns a non-zero code, different from the success code,
\* when the input is missing and zero in every other run that returns; every
\* run whose output can be opened gets to its return; in the not-found
\* outcome zero is returned only once the diagnostic line is in the output.
C10_ExitStatus ==
    entry = "main" =>
        /\ returned # << >> => pc = "done"
        /\ pc = "done" =>
              IF input_exists THEN returned = <<0>>
              ELSE Len(returned) = 1 /\ returned[1] # 0
        /\ pc \notin {"done", "raised"} => ENABLED Next
        /\ pc = "raised" => (~out_dir_exists /\ returned = << >>)
        /\ (returned = <<0>> /\ chosen = << >>) =>
              outFile.lines = << <<"No longitude/latitude found in", inp>> >>

\* Zero is returned after numbers were scanned but no candidate was found,
\* with the diagnostic line written.
C10_Witness ==
    /\ entry = "main"
    /\ returned = <<0>>
    /\ floats # << >>
    /\ unique = << >>
    /\ chosen = << >>
    /\ outFile.lines = << <<"No longitude/latitude found in", inp>> >>

(***************************************************************************)
(* The Float Scanner                                                       *)
(***************************************************************************)
AfterScan == entry = "scan" /\ Ran("scan")

Digit(b) == b \in {"0", "1", "2", "3", "4", "5", "6", "7", "8", "9"}

\* The number grammar: optional sign, one or more digits, a dot, one or more
\* digits, optionally an exponent letter, an optional sign and one or more
\* digits (the alternative of one to three integer digits is a case of it).
Grammar(tok) ==
    \E sg \in 0..1, d \in 1..Len(tok), f \in 1..Len(tok), x \in 0..Len(tok), xs \in 0..1 :
        /\ sg + d + 1 + f + x = Len(tok)
        /\ sg = 1 => tok[1] \in {"-", "+"}
        /\ \A k \in (sg + 1)..(sg + d) : Digit(tok[k])
        /\ tok[sg + d + 1] = "."
        /\ \A k \in (sg + d + 2)..(sg + d + 1 + f) : Digit(tok[k])
        /\ \/ x = 0 /\ xs = 0
           \/ /\ x >= 2 + xs
              /\ tok[sg + d + f + 2] \in {"e", "E"}
              /\ xs = 1 => tok[sg + d + f + 3] \in {"-", "+"}
              /\ \A k \in (sg + d + f + 3 + xs)..Len(tok) : Digit(tok[k])

\* Lengths of the substrings of data at offset off that satisfy the grammar.
TokenLens(off) ==
    {n \in 1..(Len(data) - off) : Grammar(SubSeq(data, off + 1, off + n))}

Longest(S) == CHOOSE n \in S : \A m \in S : m <= n

\* C11: the offsets returned by find_floats_in_bytes are strictly
\* increasing; every match is a substring satisfying the number grammar and
\* no match reaches into the next one.
C11_OffsetsStrictlyIncreasing ==
    AfterScan =>
        /\ \A a, b \in 1..Len(floats) : a < b => floats[a][1] < floats[b][1]
        /\ \A a \in 1..Len(floats) :
              /\ floats[a][1] \in 0..(Len(data) - 1)
              /\ TokenLens(floats[a][1]) # {}
        /\ \A a \in 1..(Len(floats) - 1) :
              floats[a][1] + Longest(TokenLens(floats[a][1])) <= floats[a + 1][1]

\* Two matches, the second starting at the byte where the first ends.
C11_Witness ==
    /\ AfterScan
    /\ Len(floats) = 2
    /\ floats[2][1] = floats[1][1] + Longest(TokenLens(floats[1][1]))
    /\ floats[1][2] # floats[2][2]

\* Every token FLOAT_RE matches, at any position of the buffer, decodes as
\* ASCII and is accepted by float(): the except branch of
\* find_floats_in_bytes is never taken.
NoMatchFailsToParse ==
    \A p \in 1..Len(data) :
        FLOAT_RE(data, p) > 0 =>
            LET tok == SubSeq(data, p, p + FLOAT_RE(data, p) - 1)
            IN  decode_ok(tok) /\ float_ok(tok)

(***************************************************************************)
(* The end-to-end flow of main()                                           *)
(***************************************************************************)
\* C13: in a run of main() every candidate has pos1 < pos2 and the
\* candidates come in non-decreasing pos1 order, so whenever the fallback
\* phase chooses from a non-empty deduplicated list, it chooses the first
\* element of that list.
C13_FallbackIsFirstElement ==
    entry = "main" =>
        /\ \A k \in 1..Len(pairs) : pairs[k][1] < pairs[k][2]
        /\ \A a, b \in 1..Len(pairs) : a < b => pairs[a][1] <= pairs[b][1]
        /\ \A k \in 1..Len(unique) : unique[k][3] < unique[k][4]
        /\ (/\ Ran("fallback")
            /\ unique # << >>
            /\ \A n \in 1..Len(unique) : ~NearTarget(unique[n]))
              => chosen = unique[1]

\* The fallback has chosen among three unique candidates of which the last
\* starts later in the file than the first.
C13_Witness ==
    /\ entry = "main"
    /\ Ran("fallback")
    /\ Len(unique) >= 3
    /\ \A n \in 1..Len(unique) : ~NearTarget(unique[n])
    /\ chosen = unique[1]
    /\ MinPos(unique[Len(unique)]) > MinPos(unique[1])

====
